---- MODULE Spec2Model ----
(***************************************************************************)
(* csvtojson.py: a CSV holding repeated 5-column blocks                    *)
(*   Port,vLAN,Dj,Alias,Room                                               *)
(* is turned into a JSON array of records FIELD1, "Switch 1", FIELD3,      *)
(* FIELD4, FIELD5, sorted numerically by port.                             *)
(*                                                                         *)
(* A cell is a sequence of characters; a character is a one-character      *)
(* string, except for the characters TLA+ cannot write, which are named:   *)
(*   "nbsp"   U+00A0 NO-BREAK SPACE                                        *)
(*   "tab"    U+0009                                                       *)
(*   "nl"     U+000A                                                       *)
(*   "u0661"  U+0661 ARABIC-INDIC DIGIT ONE   (a decimal digit, value 1)   *)
(*   "u0664"  U+0664 ARABIC-INDIC DIGIT FOUR  (a decimal digit, value 4)   *)
(* A row is a sequence of cells and the input is a sequence of rows, as    *)
(* csv.reader yields them. Indices are 0-based as in the source; RowAt and *)
(* get_cell convert to the 1-based sequences of TLA+.                      *)
(***************************************************************************)
EXTENDS Integers, Sequences, FiniteSets, TLC

---------------------------------------------------------------------------
(* Bounds of the model *)

\* longest input, in rows
MaxRows == 4
\* longest port cell of the port-grammar inputs, in characters
MaxPortLen == 4
\* longest VLAN cell of the VLAN inputs, in characters
MaxVlanLen == 4

---------------------------------------------------------------------------
(* Characters *)

UpperChars == <<"A","B","C","D","E","F","G","H","I","J","K","L","M",
                "N","O","P","Q","R","S","T","U","V","W","X","Y","Z">>
LowerChars == <<"a","b","c","d","e","f","g","h","i","j","k","l","m",
                "n","o","p","q","r","s","t","u","v","w","x","y","z">>

\* the member of a one-member set. An assignment x = e of the source is
\* written The({body : x \in {e}}): x names the value of e in body.
The(S) == CHOOSE x \in S : TRUE

\* str.lower() on one character
LowerChar(c) ==
  IF \E k \in 1..Len(UpperChars) : UpperChars[k] = c
  THEN LowerChars[CHOOSE k \in 1..Len(UpperChars) : UpperChars[k] = c]
  ELSE c

\* str.lower()
lower(s) == The({[k \in 1..Len(t) |-> LowerChar(t[k])] : t \in {s}})

\* the characters str.strip() removes (str.isspace()); U+00A0 is one of them
IsSpace(c) == c \in {" ", "tab", "nl", "nbsp"}

AsciiDigits == <<"0","1","2","3","4","5","6","7","8","9">>

IsAsciiDigit(c) == \E k \in 1..Len(AsciiDigits) : AsciiDigits[k] = c

\* the decimal digits outside ASCII (Unicode category Nd) and their values
UnicodeDigitValue == [u0661 |-> 1, u0664 |-> 4]

\* \d of a str pattern: any Unicode decimal digit, not only 0-9
IsDigit(c) == IsAsciiDigit(c) \/ c \in DOMAIN UnicodeDigitValue

\* the value int() gives a decimal digit
DigitValue(c) ==
  IF IsAsciiDigit(c)
  THEN (CHOOSE k \in 1..Len(AsciiDigits) : AsciiDigits[k] = c) - 1
  ELSE UnicodeDigitValue[c]

---------------------------------------------------------------------------
(* Strings *)

Drop(s, n) == SubSeq(s, n + 1, Len(s))

Min(S) == CHOOSE x \in S : \A y \in S : x <= y

Max(S) == CHOOSE x \in S : \A y \in S : x >= y

\* str.strip(): what lies between the first and the last character that is
\* no white space
strip(s) ==
  LET keep == {k \in 1..Len(s) : ~IsSpace(s[k])} IN
  IF keep = {} THEN <<>> ELSE SubSeq(s, Min(keep), Max(keep))

\* str.startswith
startswith(s, prefix) ==
  Len(s) >= Len(prefix) /\ SubSeq(s, 1, Len(prefix)) = prefix

\* number of leading characters of s that \d matches
LeadDigits(s) ==
  LET others == {k \in 1..Len(s) : ~IsDigit(s[k])} IN
  IF others = {} THEN Len(s) ELSE Min(others) - 1

\* \d+ anchored at both ends, without the $ exception
AllDigits(s) == s # <<>> /\ \A k \in 1..Len(s) : IsDigit(s[k])

\* norm: replace U+00A0 by a space, then strip
norm(s) ==
  The({strip(t) : t \in {[k \in 1..Len(s) |-> IF s[k] = "nbsp" THEN " " ELSE s[k]]}})

\* clean_port
clean_port(s) ==
  The({IF startswith(t, <<"'">>) THEN strip(Tail(t)) ELSE t : t \in {norm(s)}})

\* re.fullmatch(r"(\d+)(?:\.0+)?", s): TRUE iff it matches
VlanFloatMatch(s) ==
  \E d \in {LeadDigits(s)} :
    /\ d >= 1
    /\ \/ d = Len(s)
       \/ /\ Len(s) >= d + 2
          /\ s[d + 1] = "."
          /\ \A k \in (d + 2)..Len(s) : s[k] = "0"

\* clean_vlan_raw
clean_vlan_raw(s) ==
  The({IF VlanFloatMatch(u) THEN SubSeq(u, 1, LeadDigits(u)) ELSE u :
         u \in {IF startswith(t, <<"'">>) THEN strip(Tail(t)) ELSE t : t \in {norm(s)}}})

\* VLAN_DIGIT_RE.match: ^\d+$, where $ also matches before one final newline
VLAN_DIGIT_RE(s) ==
  \/ AllDigits(s)
  \/ Len(s) >= 2 /\ s[Len(s)] = "nl" /\ AllDigits(SubSeq(s, 1, Len(s) - 1))

Lagg == <<"l","a","g","g">>

\* normalize_vlan_for_output that lets an invalid value through
normalize_vlan_keep_invalid(s) ==
  The({IF t = <<>> THEN <<>>
       ELSE IF lower(t) = Lagg THEN Lagg
       ELSE t : t \in {clean_vlan_raw(s)}})

\* normalize_vlan_for_output
normalize_vlan_for_output(s) ==
  The({IF t = <<>> THEN <<>>
       ELSE IF lower(t) = Lagg THEN Lagg
       ELSE IF VLAN_DIGIT_RE(t) THEN t
       ELSE <<>> : t \in {clean_vlan_raw(s)}})

\* \d+(?:/\d+)+ anchored at both ends: runs of digits, two or more, with one
\* slash between each two
DigitRuns(s) ==
  /\ s # <<>>
  /\ \A k \in 1..Len(s) : IsDigit(s[k]) \/ s[k] = "/"
  /\ IsDigit(s[1])
  /\ IsDigit(s[Len(s)])
  /\ \E k \in 1..Len(s) : s[k] = "/"
  /\ \A k \in 1..(Len(s) - 1) : ~(s[k] = "/" /\ s[k + 1] = "/")

\* PORT_RE.match: ^\d+(?:/\d+)+$, where $ also matches before one final
\* newline
PORT_RE(s) ==
  \/ DigitRuns(s)
  \/ Len(s) >= 2 /\ s[Len(s)] = "nl" /\ DigitRuns(SubSeq(s, 1, Len(s) - 1))

\* valid_port
valid_port(port) == PORT_RE(port)

---------------------------------------------------------------------------
(* Sorting key *)

\* the ascending sequence of the members of a set of integers
Ascending(S) ==
  The({[p \in 1..Cardinality(T) |-> CHOOSE x \in T : Cardinality({y \in T : y < x}) = p - 1] :
         T \in {S}})

\* str.split("/"): the pieces between the slashes (always at least one piece)
split(s) ==
  The({[p \in 1..(Len(cuts) - 1) |-> SubSeq(s, cuts[p] + 1, cuts[p + 1] - 1)] :
         cuts \in {Ascending({0} \cup {k \in 1..Len(s) : s[k] = "/"} \cup {Len(s) + 1})}})

\* the number the first n digits of x denote
RECURSIVE IntOfPrefix(_, _)
IntOfPrefix(x, n) ==
  IF n = 0 THEN 0 ELSE 10 * IntOfPrefix(x, n - 1) + DigitValue(x[n])

\* int(x) of a string of decimal digits
int(x) == IntOfPrefix(x, Len(x))

\* the key of a port int() cannot parse: (10**9,)
SortSentinel == <<10^9>>

\* port_to_sort_tuple. int() raises on a piece that is not a number; the
\* pieces of a port that passed valid_port are non-empty digit strings, so
\* the signed, underscored and space-padded numbers int() also reads never
\* reach it and every other piece is taken to raise.
port_to_sort_tuple(port) ==
  The({IF \A k \in 1..Len(pieces) : AllDigits(pieces[k])
       THEN [k \in 1..Len(pieces) |-> int(pieces[k])]
       ELSE SortSentinel : pieces \in {split(port)}})

\* a < b for two tuples of integers, as Python compares tuples: the first
\* differing component decides, and a proper prefix is the smaller one
TupleLess(a, b) ==
  \/ \E k \in 1..Len(a) :
       /\ k <= Len(b)
       /\ a[k] < b[k]
       /\ \A h \in 1..(k - 1) : a[h] = b[h]
  \/ /\ Len(a) < Len(b)
     /\ \A h \in 1..Len(a) : a[h] = b[h]

\* the key of records.sort
SortKey(r) == port_to_sort_tuple(r["FIELD1"])

\* the record of key j goes before the record of key k, with equal keys in
\* reverse
BeforeTiesReversed(keys, j, k) ==
  \/ TupleLess(keys[j], keys[k])
  \/ j > k /\ ~TupleLess(keys[k], keys[j])

\* the j-th record goes before the k-th in the sorted list: its key is the
\* smaller one or, the sort being stable, the keys are equal and j is the
\* earlier one; keys are the keys of the records
Before(keys, j, k) ==
  \/ TupleLess(keys[j], keys[k])
  \/ j < k /\ ~TupleLess(keys[k], keys[j])

\* list.sort(key=...): a stable sort, ascending; each record goes to the
\* place after the records that go before it
SortByKey(rs) ==
  The({[p \in 1..Len(rs) |-> rs[CHOOSE k \in 1..Len(rs) : place[k] = p]] :
         place \in {[k \in 1..Len(keys) |->
                       1 + Cardinality({j \in 1..Len(keys) : Before(keys, j, k)})] :
                    keys \in {[k \in 1..Len(rs) |-> SortKey(rs[k])]}}})

---------------------------------------------------------------------------
(* Rows *)

\* rows[idx], 0-based
RowAt(rs, idx) == rs[idx + 1]

\* get_cell
get_cell(row, idx) == IF idx < Len(row) THEN norm(row[idx + 1]) ELSE <<>>

\* is_empty_row
is_empty_row(row) == row = <<>> \/ \A k \in 1..Len(row) : norm(row[k]) = <<>>

HeaderWords == << <<"p","o","r","t">>, <<"v","l","a","n">>, <<"d","j">>,
                 <<"a","l","i","a","s">>, <<"r","o","o","m">> >>

\* range(len(lower) - 5): one candidate short
CandidateStartsShort(row) == 0..(Len(row) - 6)

\* range(len(lower) - 4): the candidate block starts of a row
CandidateStarts(row) == 0..(Len(row) - 5)

\* find_block_starts: the starts, ascending
find_block_starts(row) ==
  The({Ascending({c \in CandidateStarts(row) : SubSeq(low, c + 1, c + 5) = HeaderWords}) :
         low \in {[k \in 1..Len(row) |-> lower(norm(row[k]))]}})

\* the members of a sequence
Range(s) == {s[k] : k \in 1..Len(s)}

\* sorted(block_starts)
sorted(starts) == Ascending(Range(starts))

\* the new starts take the place of the known ones
replace_starts(block_starts, new_starts) == new_starts

\* lines 163-165: append, in their order, the new starts that are not yet in
\* the list
merge_starts(block_starts, new_starts) ==
  LET fresh == {k \in 1..Len(new_starts) :
                  /\ new_starts[k] \notin Range(block_starts)
                  /\ \A h \in 1..(k - 1) : new_starts[h] # new_starts[k]}
      order == Ascending(fresh)
  IN  block_starts \o [p \in 1..Len(order) |-> new_starts[order[p]]]

\* str(idx) for idx >= 0
RECURSIVE str(_)
str(n) ==
  IF n < 10 THEN <<AsciiDigits[n + 1]>>
  ELSE str(n \div 10) \o <<AsciiDigits[(n % 10) + 1]>>

\* the first cell of row_above[start .. start+4] that starts with "switch"
\* (normalized, case-insensitive), or "" when there is none
LabelAbove(row_above, start) ==
  LET hits == {j \in start..(start + 4) :
                 /\ j < Len(row_above)
                 /\ startswith(lower(norm(row_above[j + 1])), <<"s","w","i","t","c","h">>)}
  IN  IF hits = {} THEN <<>>
      ELSE norm(row_above[(CHOOSE j \in hits : \A h \in hits : j <= h) + 1])

\* detect_switch_labels; no row above (None) is the empty row
detect_switch_labels(row_above, block_starts) ==
  [s \in Range(block_starts) |->
     LET idx == CHOOSE k \in 1..Len(block_starts) :
                  block_starts[k] = s /\ \A h \in (k + 1)..Len(block_starts) : block_starts[h] # s
         label == LabelAbove(row_above, s)
     IN  IF label # <<>> THEN label
         ELSE <<"S","w","i","t","c","h"," ">> \o str(idx)]

\* dict.update
update(old, new) ==
  [s \in (DOMAIN old) \cup (DOMAIN new) |-> IF s \in DOMAIN new THEN new[s] ELSE old[s]]

---------------------------------------------------------------------------
(* One block of one data row: lines 170-211 *)

\* the VLAN cell filled down: a blank cell takes the cell of the row above
vlan_cell_filled_down(rs, idx, start) ==
  LET here == get_cell(RowAt(rs, idx), start + 1) IN
  IF here = <<>> /\ idx > 0 THEN get_cell(RowAt(rs, idx - 1), start + 1) ELSE here

\* lines 151, 172: the VLAN cell is read from the row being processed
vlan_cell_of(rs, idx, start) == get_cell(RowAt(rs, idx), start + 1)

\* is_blank_block that leaves the port cell out of the test
is_blank_block_ignoring_port(port_cell, vlan_cell, dj_cell, room_cell) ==
  vlan_cell = <<>> /\ dj_cell = <<>> /\ room_cell = <<>>

\* line 177: the entire block is empty on this row
is_blank_block(port_cell, vlan_cell, dj_cell, room_cell) ==
  port_cell = <<>> /\ vlan_cell = <<>> /\ dj_cell = <<>> /\ room_cell = <<>>

\* lines 189-194
dj_out(vlan_norm, dj_cell) == IF vlan_norm = <<>> THEN <<>> ELSE dj_cell

\* room_out without the test of the VLAN
room_out_ungated(vlan_norm, room_cell) == room_cell

\* lines 189-195
room_out(vlan_norm, room_cell) == IF vlan_norm = <<>> THEN <<>> ELSE room_cell

\* alias_out with dj before room
alias_out_dj_first(vlan_norm, dj_cell, room_cell) ==
  IF vlan_norm = <<>> THEN <<>>
  ELSE IF room_cell # <<>> /\ dj_cell # <<>> THEN dj_cell \o <<" ">> \o room_cell
  ELSE IF room_cell # <<>> THEN room_cell
  ELSE dj_cell

\* lines 189-201: the alias is put together from room and dj
alias_out(vlan_norm, dj_cell, room_cell) ==
  IF vlan_norm = <<>> THEN <<>>
  ELSE IF room_cell # <<>> /\ dj_cell # <<>> THEN room_cell \o <<" ">> \o dj_cell
  ELSE IF room_cell # <<>> THEN room_cell
  ELSE dj_cell

\* lines 204-210: rec
Rec(port, vlan, dj, alias, room) ==
  ("FIELD1" :> port) @@ ("Switch 1" :> vlan) @@ ("FIELD3" :> dj) @@
  ("FIELD4" :> alias) @@ ("FIELD5" :> room)

\* lines 180-211, once the cells of the block are read: the records appended
\* (none or one)
BlockRecordsOf(start, port_cell, vlan_cell, dj_cell, room_cell) ==
  IF is_blank_block(port_cell, vlan_cell, dj_cell, room_cell) THEN <<>>
  ELSE The({IF ~valid_port(port) THEN <<>>
            ELSE << [start |-> start,
                     rec   |-> Rec(port, vlan_norm, dj_out(vlan_norm, dj_cell),
                                   alias_out(vlan_norm, dj_cell, room_cell),
                                   room_out(vlan_norm, room_cell))] >> :
              port \in {clean_port(port_cell)},
              vlan_norm \in {normalize_vlan_for_output(vlan_cell)}})

\* the body of the loop over the block starts, for one start: the records it
\* appends (none or one)
BlockRecords(rs, idx, start) ==
  The({BlockRecordsOf(start, port_cell, vlan_cell, dj_cell, room_cell) :
         port_cell \in {get_cell(RowAt(rs, idx), start)},
         vlan_cell \in {vlan_cell_of(rs, idx, start)},
         dj_cell   \in {get_cell(RowAt(rs, idx), start + 2)},
         room_cell \in {get_cell(RowAt(rs, idx), start + 4)}})

\* for start in sorted(block_starts), from the k-th start on: the records of
\* one row, each with the block start it came from; starts is the ascending
\* sequence of starts
RECURSIVE RowRecordsFrom(_, _, _, _)
RowRecordsFrom(rs, idx, starts, k) ==
  IF k > Len(starts) THEN <<>>
  ELSE The({BlockRecords(rs, idx, start) : start \in {starts[k]}})
       \o RowRecordsFrom(rs, idx, starts, k + 1)

\* lines 170-211: the loop over the block starts
RowRecords(rs, idx, starts) == RowRecordsFrom(rs, idx, starts, 1)

\* the records alone
Recs(tagged) == [k \in 1..Len(tagged) |-> tagged[k].rec]

---------------------------------------------------------------------------
(* The run: main, lines 117-222 *)

VARIABLES
  rows,                   \* the rows csv.reader read from the input file
  pc,                     \* where main is: "start", "find_header", "loop",
                          \* "write", "done" or "error"
  i,                      \* the row index of the loop being run
  header_idx,             \* index of the first header row, NoneIdx before
  block_starts,           \* the list of known block starts
  switch_label_by_start,  \* block start -> switch label
  records,                \* the list of records
  out_opened,             \* the output file has been opened for writing
  json_out,               \* the array written to the output file
  exit_code,              \* the exit status; Running while main runs
  hist                    \* history: for each data row processed, its index,
                          \* the starts it was scanned at and what it appended

vars == <<rows, pc, i, header_idx, block_starts, switch_label_by_start,
          records, out_opened, json_out, exit_code, hist>>

\* header_idx = None
NoneIdx == -1

\* no exit status yet
Running == -1

\* the cursor left where it is
cursor_stays(idx) == idx

\* line 153
after_empty_row(idx) == idx + 1

\* line 166
after_header_row(idx) == idx + 1

\* line 213
after_data_row(idx) == idx + 1

\* lines 126-127: raise SystemExit("CSV is empty."), exit status 1
CsvEmpty ==
  /\ pc = "start"
  /\ rows = <<>>
  /\ pc' = "error"
  /\ exit_code' = 1
  /\ UNCHANGED <<rows, i, header_idx, block_starts, switch_label_by_start,
                 records, out_opened, json_out, hist>>

\* lines 126-132: the input has rows; the search for the header row begins
BeginSearch ==
  /\ pc = "start"
  /\ rows # <<>>
  /\ pc' = "find_header"
  /\ i' = 0
  /\ UNCHANGED <<rows, header_idx, block_starts, switch_label_by_start,
                 records, out_opened, json_out, exit_code, hist>>

\* lines 132-134: row i has no block start; on to the next row
HeaderNotHere ==
  /\ pc = "find_header"
  /\ i < Len(rows)
  /\ find_block_starts(RowAt(rows, i)) = <<>>
  /\ i' = i + 1
  /\ UNCHANGED <<rows, pc, header_idx, block_starts, switch_label_by_start,
                 records, out_opened, json_out, exit_code, hist>>

\* lines 134-149: row i is the header row
HeaderFound ==
  /\ pc = "find_header"
  /\ i < Len(rows)
  /\ \E starts \in {find_block_starts(RowAt(rows, i))} :
     LET row_above == IF i > 0 THEN RowAt(rows, i - 1) ELSE <<>>
     IN  /\ starts # <<>>
         /\ header_idx' = i
         /\ block_starts' = starts
         /\ switch_label_by_start' = detect_switch_labels(row_above, starts)
  /\ records' = <<>>
  /\ i' = i + 1
  /\ pc' = "loop"
  /\ UNCHANGED <<rows, out_opened, json_out, exit_code, hist>>

\* lines 139-140: no row has a block start: raise SystemExit, exit status 1
NoHeader ==
  /\ pc = "find_header"
  /\ i >= Len(rows)
  /\ pc' = "error"
  /\ exit_code' = 1
  /\ UNCHANGED <<rows, i, header_idx, block_starts, switch_label_by_start,
                 records, out_opened, json_out, hist>>

\* lines 150-154
SkipEmptyRow ==
  /\ pc = "loop"
  /\ i < Len(rows)
  /\ is_empty_row(RowAt(rows, i))
  /\ i' = after_empty_row(i)
  /\ UNCHANGED <<rows, pc, header_idx, block_starts, switch_label_by_start,
                 records, out_opened, json_out, exit_code, hist>>

\* lines 156-167: another header row
HeaderRowAgain ==
  /\ pc = "loop"
  /\ i < Len(rows)
  /\ ~is_empty_row(RowAt(rows, i))
  /\ \E new_starts \in {find_block_starts(RowAt(rows, i))} :
     LET row_above_this == IF i - 1 >= 0 THEN RowAt(rows, i - 1) ELSE <<>>
     IN  /\ new_starts # <<>>
         /\ \E labels \in {detect_switch_labels(row_above_this, new_starts)} :
              switch_label_by_start' = update(switch_label_by_start, labels)
         /\ block_starts' = merge_starts(block_starts, new_starts)
  /\ i' = after_header_row(i)
  /\ UNCHANGED <<rows, pc, header_idx, records, out_opened, json_out,
                 exit_code, hist>>

\* lines 169-213: a data row
DataRow ==
  /\ pc = "loop"
  /\ i < Len(rows)
  /\ ~is_empty_row(RowAt(rows, i))
  /\ find_block_starts(RowAt(rows, i)) = <<>>
  /\ \E starts \in {sorted(block_starts)} :
       \E tagged \in {RowRecords(rows, i, starts)} :
         /\ records' = records \o Recs(tagged)
         /\ hist' = Append(hist, [row |-> i, starts |-> starts, out |-> tagged])
  /\ i' = after_data_row(i)
  /\ UNCHANGED <<rows, pc, header_idx, block_starts, switch_label_by_start,
                 out_opened, json_out, exit_code>>

\* lines 150, 215-216: the rows are exhausted; records.sort
SortRecords ==
  /\ pc = "loop"
  /\ i >= Len(rows)
  /\ records' = SortByKey(records)
  /\ pc' = "write"
  /\ UNCHANGED <<rows, i, header_idx, block_starts, switch_label_by_start,
                 out_opened, json_out, exit_code, hist>>

\* lines 218-222: json.dump to the output file, then a normal exit
WriteJson ==
  /\ pc = "write"
  /\ out_opened' = TRUE
  /\ json_out' = records
  /\ pc' = "done"
  /\ exit_code' = 0
  /\ UNCHANGED <<rows, i, header_idx, block_starts, switch_label_by_start,
                 records, hist>>

Next ==
  \/ CsvEmpty
  \/ BeginSearch
  \/ HeaderNotHere
  \/ HeaderFound
  \/ NoHeader
  \/ SkipEmptyRow
  \/ HeaderRowAgain
  \/ DataRow
  \/ SortRecords
  \/ WriteJson

---------------------------------------------------------------------------
(* Inputs *)

\* the inputs of at most n rows taken from pool
Files(pool, n) == UNION {[1..m -> pool] : m \in 0..n}

\* the cells of at most n characters over alphabet
Cells(alphabet, n) == UNION {[1..m -> alphabet] : m \in 0..n}

Empty == <<>>

\* Port,vLAN,Dj,Alias,Room
HeaderRow ==
  << <<"P","o","r","t">>, <<"v","L","A","N">>, <<"D","j">>,
     <<"A","l","i","a","s">>, <<"R","o","o","m">> >>

\* 2/1,7,x,,y, PORT,vlan,DJ,alias,Room<nbsp>: a header block at column 5,
\* beside a block of port data at column 0
HeaderRow2 ==
  << <<"2","/","1">>, <<"7">>, <<"x">>, Empty, <<"y">>,
     <<" ","P","O","R","T">>, <<"v","l","a","n">>, <<"D","J">>,
     <<"a","l","i","a","s">>, <<"R","o","o","m","nbsp">> >>

\* a row of no cells, and a row of blank cells
NoCellRow == <<>>
BlankRow == << <<" ">>, <<"nbsp">> >>

\* 1/1/1,103,DJBob,,LabA
E2ERow1 ==
  << <<"1","/","1","/","1">>, <<"1","0","3">>, <<"D","J","B","o","b">>,
     Empty, <<"L","a","b","A">> >>

\* 1/1/2,,,,<space>
E2ERow2 == << <<"1","/","1","/","2">>, Empty, Empty, Empty, <<" ">> >>

\* 1/1/3,lagg,,,
E2ERow3 == << <<"1","/","1","/","3">>, <<"l","a","g","g">>, Empty, Empty, Empty >>

\* 1/1,103.0,Bob,zz,Lab<nbsp>A,01/1,LAGG,,al,Lab
RowA ==
  << <<"1","/","1">>, <<"1","0","3",".","0">>, <<"B","o","b">>, <<"z","z">>,
     <<"L","a","b","nbsp","A">>,
     <<"0","1","/","1">>, <<"L","A","G","G">>, Empty, <<"a","l">>, <<"L","a","b">> >>

\* 1/1,,Bob,zz,Lab,10/1,abc,Dj,,
RowX ==
  << <<"1","/","1">>, Empty, <<"B","o","b">>, <<"z","z">>, <<"L","a","b">>,
     <<"1","0","/","1">>, <<"a","b","c">>, <<"D","j">>, Empty, Empty >>

\* '2/1,7,,,,1/1/2,lagg,<nbsp>Dj,,
RowB ==
  << <<"'","2","/","1">>, <<"7">>, Empty, Empty, Empty,
     <<"1","/","1","/","2">>, <<"l","a","g","g">>, <<"nbsp","D","j">>, Empty, Empty >>

\* 12,5,a,,b,3/1,8: a port without a slash, beside a block the row ends in
RowC ==
  << <<"1","2">>, <<"5">>, <<"a">>, Empty, <<"b">>, <<"3","/","1">>, <<"8">> >>

RowPool == {HeaderRow, HeaderRow2, BlankRow, RowA, RowX, RowB, RowC}

E2EInput == <<HeaderRow, E2ERow1, E2ERow2, E2ERow3>>

E2EPool == {HeaderRow, HeaderRow2, BlankRow, E2ERow1, E2ERow2, E2ERow3}

FairPool == {HeaderRow, HeaderRow2, BlankRow, E2ERow1}

\* the inputs that take the run through every branch of main
BasicFiles == Files({HeaderRow, HeaderRow2, BlankRow, NoCellRow}, MaxRows)

PortAlphabet == {"1", "/", "'", " ", "a", "u0661"}

\* p,7,Bob,,Lab
PortRow(p) == <<p, <<"7">>, <<"B","o","b">>, Empty, <<"L","a","b">> >>

PortFiles == {<<HeaderRow, PortRow(p), E2ERow1>> : p \in Cells(PortAlphabet, MaxPortLen)}

VlanAlphabet == {"0", "4", ".", "'", " ", "L", "a", "g", "u0664"}

\* 1/1,v,Bob,,Lab
VlanRow(v) == << <<"1","/","1">>, v, <<"B","o","b">>, Empty, <<"L","a","b">> >>

VlanFiles == {<<HeaderRow, VlanRow(v)>> : v \in Cells(VlanAlphabet, MaxVlanLen)}

\* the state main starts in, on the input file rs
InitOn(rs) ==
  /\ rows = rs
  /\ pc = "start"
  /\ i = 0
  /\ header_idx = NoneIdx
  /\ block_starts = <<>>
  /\ switch_label_by_start = <<>>
  /\ records = <<>>
  /\ out_opened = FALSE
  /\ json_out = <<>>
  /\ exit_code = Running
  /\ hist = <<>>

Init == \E rs \in Files(RowPool, MaxRows) : InitOn(rs)

InitE2E == \E rs \in Files(E2EPool, MaxRows) : InitOn(rs)

InitFair == \E rs \in Files(FairPool, MaxRows) : InitOn(rs)

InitPort == \E rs \in BasicFiles \cup PortFiles : InitOn(rs)

InitVlan == \E rs \in BasicFiles \cup VlanFiles : InitOn(rs)

Spec == Init /\ [][Next]_vars

SpecE2E == InitE2E /\ [][Next]_vars

SpecPort == InitPort /\ [][Next]_vars

SpecVlan == InitVlan /\ [][Next]_vars

\* main is sequential code: a step that can be taken is taken
FairSpec == InitFair /\ [][Next]_vars /\ WF_vars(Next)

---------------------------------------------------------------------------
(* Claims *)

\* the records of the end-to-end input
E2ERec1 ==
  Rec(<<"1","/","1","/","1">>, <<"1","0","3">>, <<"D","J","B","o","b">>,
      <<"L","a","b","A"," ","D","J","B","o","b">>, <<"L","a","b","A">>)
E2ERec2 == Rec(<<"1","/","1","/","2">>, <<>>, <<>>, <<>>, <<>>)
E2ERec3 == Rec(<<"1","/","1","/","3">>, <<"l","a","g","g">>, <<>>, <<>>, <<>>)

\* C1 as stated: on the end-to-end input the output is exactly the two
\* records of ports 1/1/1 and 1/1/3; the row of port 1/1/2 gives no record.
C1_TwoRecords ==
  (rows = E2EInput /\ pc = "done") => json_out = <<E2ERec1, E2ERec3>>

\* C1 amended: on the end-to-end input the output is exactly three records,
\* of ports 1/1/1, 1/1/2 and 1/1/3 in that order; the row of port 1/1/2 is
\* not skipped, its port cell being non-blank, and gives a record whose
\* "Switch 1", FIELD3, FIELD4 and FIELD5 are all empty.
C1_ThreeRecords ==
  (rows = E2EInput /\ pc = "done") => json_out = <<E2ERec1, E2ERec2, E2ERec3>>

C1_Witness == rows = E2EInput /\ pc = "done" /\ out_opened

\* the cell of input row j at column c as the file holds it; "" past the end
RawCell(j, c) == IF c < Len(rows[j + 1]) THEN rows[j + 1][c + 1] ELSE <<>>

\* a cell of white space only
IsBlank(cell) == \A k \in 1..Len(cell) : IsSpace(cell[k])

\* C2: no fill-down. The records a data row gives depend on the row's own
\* cells and the known block starts only: two data rows of one run with the
\* same cells, scanned at the same starts, give the same records whatever the
\* rows before them hold; and a record of a block whose VLAN cell is blank
\* has "Switch 1", FIELD3, FIELD4 and FIELD5 empty, whatever the row above
\* holds in that column.
C2_NoFillDown ==
  /\ \A a \in 1..Len(hist) : \A b \in 1..Len(hist) :
       (rows[hist[a].row + 1] = rows[hist[b].row + 1] /\ hist[a].starts = hist[b].starts)
         => hist[a].out = hist[b].out
  /\ \A a \in 1..Len(hist) : \A k \in 1..Len(hist[a].out) :
       LET t == hist[a].out[k] IN
       IsBlank(RawCell(hist[a].row, t.start + 1))
         => /\ t.rec["Switch 1"] = <<>>
            /\ t.rec["FIELD3"] = <<>>
            /\ t.rec["FIELD4"] = <<>>
            /\ t.rec["FIELD5"] = <<>>

\* row N has a VLAN and a record with it, row N+1 right below has a blank
\* VLAN cell in the same block, a Dj cell, and a record too
C2_Witness ==
  /\ pc = "done"
  /\ \E a \in 1..Len(hist) : \E b \in 1..Len(hist) :
       /\ hist[b].row = hist[a].row + 1
       /\ \E k \in 1..Len(hist[a].out) : \E m \in 1..Len(hist[b].out) :
            /\ hist[a].out[k].start = hist[b].out[m].start
            /\ hist[a].out[k].rec["Switch 1"] # <<>>
            /\ IsBlank(RawCell(hist[b].row, hist[b].out[m].start + 1))
            /\ ~IsBlank(RawCell(hist[b].row, hist[b].out[m].start + 2))

\* C3: every record whose "Switch 1" is empty has FIELD3, FIELD4 and FIELD5
\* empty, in the list of records and in the output.
C3_BlankVlanBlanksRest ==
  /\ \A k \in 1..Len(records) :
       records[k]["Switch 1"] = <<>>
         => records[k]["FIELD3"] = <<>> /\ records[k]["FIELD4"] = <<>> /\ records[k]["FIELD5"] = <<>>
  /\ \A k \in 1..Len(json_out) :
       json_out[k]["Switch 1"] = <<>>
         => json_out[k]["FIELD3"] = <<>> /\ json_out[k]["FIELD4"] = <<>> /\ json_out[k]["FIELD5"] = <<>>

\* a written record with an empty "Switch 1" whose block had a VLAN cell that
\* is not blank (but invalid) and a Dj cell, and another whose block had a
\* Room cell
C3_Witness ==
  /\ pc = "done"
  /\ json_out # <<>>
  /\ \E a \in 1..Len(hist) : \E k \in 1..Len(hist[a].out) :
       LET t == hist[a].out[k] IN
       /\ t.rec["Switch 1"] = <<>>
       /\ ~IsBlank(RawCell(hist[a].row, t.start + 1))
       /\ ~IsBlank(RawCell(hist[a].row, t.start + 2))
  /\ \E a \in 1..Len(hist) : \E k \in 1..Len(hist[a].out) :
       LET t == hist[a].out[k] IN
       /\ t.rec["Switch 1"] = <<>>
       /\ ~IsBlank(RawCell(hist[a].row, t.start + 4))

\* C6: a record with a VLAN has the normalized Dj and Room cells of its block
\* as FIELD3 and FIELD5, and FIELD4 is room + " " + dj when both are
\* non-blank, room when only room is, dj when only dj is, "" when neither is:
\* the Alias cell of the block plays no part.
C6_AliasDerived ==
  \A a \in 1..Len(hist) : \A k \in 1..Len(hist[a].out) :
    LET t    == hist[a].out[k]
        dj   == norm(RawCell(hist[a].row, t.start + 2))
        room == norm(RawCell(hist[a].row, t.start + 4))
    IN  t.rec["Switch 1"] # <<>>
          => /\ t.rec["FIELD3"] = dj
             /\ t.rec["FIELD5"] = room
             /\ t.rec["FIELD4"] =
                  IF room # <<>> /\ dj # <<>> THEN room \o <<" ">> \o dj
                  ELSE IF room # <<>> THEN room
                  ELSE IF dj # <<>> THEN dj
                  ELSE <<>>

\* a record with a VLAN, a Dj and a Room whose block has an Alias cell that is
\* not blank
C6_Witness ==
  /\ pc = "done"
  /\ \E a \in 1..Len(hist) : \E k \in 1..Len(hist[a].out) :
       LET t == hist[a].out[k] IN
       /\ t.rec["Switch 1"] # <<>>
       /\ t.rec["FIELD3"] # <<>>
       /\ t.rec["FIELD5"] # <<>>
       /\ ~IsBlank(RawCell(hist[a].row, t.start + 3))

\* the records in the order they were extracted: row by row, and within a
\* row by ascending block start
RECURSIVE Flatten(_)
Flatten(h) == IF h = <<>> THEN <<>> ELSE Recs(Head(h).out) \o Flatten(Tail(h))

\* the number a string of ASCII digits denotes
RECURSIVE Number(_)
Number(x) ==
  IF x = <<>> THEN 0
  ELSE 10 * Number(SubSeq(x, 1, Len(x) - 1))
       + (CHOOSE d \in 0..9 : AsciiDigits[d + 1] = x[Len(x)])

\* the slash-separated components of a port, as numbers, read left to right;
\* n is the number the digits since the last slash denote
RECURSIVE KeyFrom(_, _, _)
KeyFrom(port, k, n) ==
  IF k > Len(port) THEN <<n>>
  ELSE IF port[k] = "/" THEN <<n>> \o KeyFrom(port, k + 1, 0)
  ELSE KeyFrom(port, k + 1, 10 * n + Number(<<port[k]>>))

NumericKey(port) == KeyFrom(port, 1, 0)

\* key a comes strictly after key b: at the first component where they
\* differ a is the larger, or b is a proper prefix of a
KeyAfter(a, b) ==
  LET common == {k \in 1..Len(a) : k <= Len(b)}
      differ == {k \in common : a[k] # b[k]}
  IN  IF differ = {} THEN Len(a) > Len(b)
      ELSE LET k == CHOOSE x \in differ : \A y \in differ : x <= y
           IN  a[k] > b[k]

\* C7: once sorted, the records are the extracted records in an order that
\* is non-decreasing under the numeric key of FIELD1, records of equal key in
\* their extraction order (so the sort is a stable permutation); extraction
\* order is row order and, within a row, ascending block start; the output
\* written is that sorted list.
C7_StableNumericSort ==
  /\ \A a \in 1..Len(hist) : \A b \in 1..Len(hist) : a < b => hist[a].row < hist[b].row
  /\ \A a \in 1..Len(hist) : \A k \in 1..Len(hist[a].out) : \A m \in 1..Len(hist[a].out) :
       k < m => hist[a].out[k].start < hist[a].out[m].start
  /\ pc = "loop" => records = Flatten(hist)
  /\ pc \in {"write", "done"} =>
       /\ Len(records) = Len(Flatten(hist))
       /\ \A p \in 1..Len(records) : \A q \in 1..Len(records) :
            p < q => ~KeyAfter(NumericKey(records[p]["FIELD1"]), NumericKey(records[q]["FIELD1"]))
       /\ \A p \in 1..Len(records) :
            LET SameKey(r) == NumericKey(r["FIELD1"]) = NumericKey(records[p]["FIELD1"])
            IN  SelectSeq(records, SameKey) = SelectSeq(Flatten(hist), SameKey)
  /\ pc = "done" => json_out = records

\* an output of four records or more, extracted out of order, with two
\* different records of the same key (01/1 and 1/1) and a key that is a
\* prefix of another
C7_Witness ==
  /\ pc = "done"
  /\ Len(json_out) >= 4
  /\ json_out # Flatten(hist)
  /\ \E p \in 1..Len(json_out) : \E q \in 1..Len(json_out) :
       /\ json_out[p] # json_out[q]
       /\ json_out[p]["FIELD1"] # json_out[q]["FIELD1"]
       /\ NumericKey(json_out[p]["FIELD1"]) = NumericKey(json_out[q]["FIELD1"])
  /\ \E p \in 1..Len(json_out) : \E q \in 1..Len(json_out) :
       Len(NumericKey(json_out[p]["FIELD1"])) < Len(NumericKey(json_out[q]["FIELD1"]))

\* the header pattern at column c of input row j: five consecutive cells
\* equal, trimmed and case-insensitive, to Port, vLAN, Dj, Alias, Room
HeaderAt(j, c) ==
  /\ c + 5 <= Len(rows[j + 1])
  /\ \A k \in 1..5 : lower(norm(rows[j + 1][c + k])) = HeaderWords[k]

\* the block starts of input row j
HeaderStarts(j) == {c \in 0..(Len(rows[j + 1]) - 1) : HeaderAt(j, c)}

\* the block starts of the header rows among rows 0 .. j-1
StartsBefore(j) == UNION {HeaderStarts(k) : k \in 0..(j - 1)}

\* C8: while the rows after the first header row are scanned the set of known
\* block starts never shrinks; at every row it is the union of the block
\* starts of the header rows before it, and every data row is scanned at
\* the whole union; a row that matches the header pattern anywhere is never
\* scanned and adds no record.
C8_HeaderUnion ==
  /\ [](pc = "loop" => Range(block_starts) = StartsBefore(i))
  /\ [](\A a \in 1..Len(hist) :
          /\ Range(hist[a].starts) = StartsBefore(hist[a].row)
          /\ HeaderStarts(hist[a].row) = {}
          /\ \A k \in 1..Len(hist[a].out) : hist[a].out[k].start \in StartsBefore(hist[a].row))
  /\ [][pc = "loop" => Range(block_starts) \subseteq Range(block_starts')]_vars
  /\ [][(pc = "loop" /\ i < Len(rows) /\ HeaderStarts(i) # {})
          => (records' = records /\ hist' = hist)]_vars

\* a later header row that holds port data beside its header block has been
\* passed, and a data row after it has given a record from a block start of
\* the first header row and one from a block start of the later one
C8_Witness ==
  /\ pc = "done"
  /\ \E j \in (header_idx + 1)..(Len(rows) - 1) :
       /\ HeaderStarts(j) # {}
       /\ ~(HeaderStarts(j) \subseteq HeaderStarts(header_idx))
       /\ valid_port(clean_port(RawCell(j, 0)))
       /\ \E a \in 1..Len(hist) :
            /\ hist[a].row > j
            /\ \E k \in 1..Len(hist[a].out) : hist[a].out[k].start \in HeaderStarts(header_idx)
            /\ \E k \in 1..Len(hist[a].out) : hist[a].out[k].start \in HeaderStarts(j)
  /\ \E a \in 1..Len(hist) : hist[a].row > header_idx /\ hist[a].row < Len(rows) - 2

\* some row of the input matches the header pattern
HasHeader == \E j \in 0..(Len(rows) - 1) : HeaderStarts(j) # {}

\* C9: an input of no rows, or with no row matching the header pattern, ends
\* in the error state with a non-zero exit status, no record extracted and
\* the output file never opened; any other input never ends in error, its
\* header row is the lowest row with a block start, and it ends done, the
\* output written and the exit status 0.
C9_FatalErrors ==
  /\ [](~HasHeader =>
          /\ pc \in {"start", "find_header", "error"}
          /\ records = <<>> /\ hist = <<>> /\ ~out_opened /\ json_out = <<>>)
  /\ [](pc = "error" => ~HasHeader /\ exit_code # 0 /\ exit_code # Running)
  /\ [](pc # "error" /\ pc # "done" => exit_code = Running /\ ~out_opened)
  /\ [](HasHeader =>
          /\ pc # "error"
          /\ pc \in {"loop", "write", "done"} =>
               /\ HeaderStarts(header_idx) # {}
               /\ \A j \in 0..(header_idx - 1) : HeaderStarts(j) = {}
          /\ pc = "done" => exit_code = 0 /\ out_opened /\ json_out = records)
  /\ ~HasHeader ~> pc = "error"
  /\ HasHeader ~> pc = "done"

\* the run has ended in error on an input that has rows, one of them holding
\* port data that a header row would have made a record
C9_Witness ==
  /\ pc = "error"
  /\ Len(rows) >= 2
  /\ \E j \in 0..(Len(rows) - 1) : valid_port(clean_port(RawCell(j, 0)))

\* C10: the run terminates, done or in error. Every iteration of the
\* extraction loop moves the row cursor on by exactly one, whatever the row
\* is; the cursor starts right after the header row, so no row at or before
\* it is scanned, and every row after it is visited once: when the loop is
\* left each data row after the header row has been scanned exactly once;
\* the output is opened only after the last row.
C10_Terminates ==
  /\ <>(pc = "done" \/ pc = "error")
  /\ [][(pc = "loop" /\ i < Len(rows)) => (i' = i + 1 /\ pc' = "loop")]_vars
  /\ [][(pc = "find_header" /\ pc' = "loop") => (i' = header_idx' + 1)]_vars
  /\ [](pc = "loop" => header_idx < i /\ i <= Len(rows))
  /\ [](\A a \in 1..Len(hist) :
          /\ header_idx < hist[a].row
          /\ hist[a].row < i
          /\ \A b \in 1..Len(hist) : a # b => hist[a].row # hist[b].row)
  /\ [](pc \in {"write", "done"} =>
          /\ i = Len(rows)
          /\ \A j \in (header_idx + 1)..(Len(rows) - 1) :
               (\E k \in 1..Len(rows[j + 1]) : ~IsBlank(rows[j + 1][k])) /\ HeaderStarts(j) = {}
                 => \E a \in 1..Len(hist) : hist[a].row = j)
  /\ [](out_opened => pc = "done" /\ i = Len(rows))

\* a finished run that has passed a blank row, another header row and a data
\* row, and has written records
C10_Witness ==
  /\ pc = "done"
  /\ out_opened
  /\ json_out # <<>>
  /\ \E j \in (header_idx + 1)..(Len(rows) - 1) : \A k \in 1..Len(rows[j + 1]) : IsBlank(rows[j + 1][k])
  /\ \E j \in (header_idx + 1)..(Len(rows) - 1) : HeaderStarts(j) # {}
  /\ hist # <<>>

\* the port grammar: ASCII digits, then one or more groups of "/" and ASCII
\* digits
RECURSIVE AsciiGroups(_, _, _)
AsciiGroups(s, k, seen) ==
  IF k > Len(s) THEN seen >= 1 /\ IsAsciiDigit(s[Len(s)])
  ELSE IF s[k] = "/" THEN k > 1 /\ IsAsciiDigit(s[k - 1]) /\ AsciiGroups(s, k + 1, seen + 1)
  ELSE IsAsciiDigit(s[k]) /\ AsciiGroups(s, k + 1, seen)

AsciiPort(s) == s # <<>> /\ AsciiGroups(s, 1, 0)

\* C4: every record's FIELD1 matches the port grammar of ASCII digits; a
\* block whose cleaned port cell does not match it gives no record and no
\* error, and the rows after it are processed.
C4_AsciiPortGrammar ==
  /\ \A k \in 1..Len(records) : AsciiPort(records[k]["FIELD1"])
  /\ \A k \in 1..Len(json_out) : AsciiPort(json_out[k]["FIELD1"])
  /\ \A a \in 1..Len(hist) : \A c \in Range(hist[a].starts) :
       ~AsciiPort(clean_port(RawCell(hist[a].row, c)))
         => \A k \in 1..Len(hist[a].out) : hist[a].out[k].start # c
  /\ HasHeader => pc # "error"
  /\ (pc = "done" /\ rows \in PortFiles) => (Len(hist) = 2 /\ hist[2].out # <<>>)

\* the same with \d read as any decimal digit
C4_UnicodePortGrammar ==
  /\ \A k \in 1..Len(records) : valid_port(records[k]["FIELD1"])
  /\ \A a \in 1..Len(hist) : \A c \in Range(hist[a].starts) :
       ~valid_port(clean_port(RawCell(hist[a].row, c)))
         => \A k \in 1..Len(hist[a].out) : hist[a].out[k].start # c
  /\ HasHeader => pc # "error"
  /\ (pc = "done" /\ rows \in PortFiles) => (Len(hist) = 2 /\ hist[2].out # <<>>)

\* a cell with the white space around it removed
RECURSIVE Trim(_)
Trim(cell) ==
  IF cell = <<>> THEN <<>>
  ELSE IF IsSpace(Head(cell)) THEN Trim(Tail(cell))
  ELSE IF IsSpace(cell[Len(cell)]) THEN Trim(SubSeq(cell, 1, Len(cell) - 1))
  ELSE cell

\* a cell without the white space around it and without one leading
\* apostrophe
Core(cell) ==
  IF Trim(cell) # <<>> /\ Head(Trim(cell)) = "'" THEN Trim(Tail(Trim(cell))) ELSE Trim(cell)

OnlyDigits(s) == s # <<>> /\ \A k \in 1..Len(s) : IsDigit(s[k])

\* s is digits, a point and one or more zeros; n is the number of digits
DigitsPointZeros(s, n) ==
  /\ n >= 1
  /\ Len(s) >= n + 2
  /\ OnlyDigits(SubSeq(s, 1, n))
  /\ s[n + 1] = "."
  /\ \A k \in (n + 2)..Len(s) : s[k] = "0"

\* C5: VLAN normalization gives "", "lagg" or a string of digits. With one
\* leading apostrophe and the white space around it stripped, a blank cell
\* gives "", any case variant of lagg gives "lagg", a string of digits gives
\* itself, digits followed by .0, .00, ... give the digits, and anything else
\* gives ""; every record's "Switch 1" is "", "lagg" or digits only.
C5_VlanNormalized ==
  /\ \A k \in 1..Len(records) :
       \/ records[k]["Switch 1"] = <<>>
       \/ records[k]["Switch 1"] = Lagg
       \/ OnlyDigits(records[k]["Switch 1"])
  /\ \A k \in 1..Len(json_out) :
       \/ json_out[k]["Switch 1"] = <<>>
       \/ json_out[k]["Switch 1"] = Lagg
       \/ OnlyDigits(json_out[k]["Switch 1"])
  /\ \A a \in 1..Len(hist) : \A k \in 1..Len(hist[a].out) :
       LET v    == hist[a].out[k].rec["Switch 1"]
           core == Core(RawCell(hist[a].row, hist[a].out[k].start + 1))
       IN  v = IF core = <<>> THEN <<>>
               ELSE IF lower(core) = Lagg THEN Lagg
               ELSE IF OnlyDigits(core) THEN core
               ELSE IF \E n \in 1..Len(core) : DigitsPointZeros(core, n)
                    THEN SubSeq(core, 1, CHOOSE n \in 1..Len(core) : DigitsPointZeros(core, n))
               ELSE <<>>

\* a written record whose VLAN cell began with an apostrophe and ended in a
\* point and zeros, and whose "Switch 1" is the digits between
C5_Witness ==
  /\ pc = "done"
  /\ \E a \in 1..Len(hist) : \E k \in 1..Len(hist[a].out) :
       LET raw == RawCell(hist[a].row, hist[a].out[k].start + 1) IN
       /\ Len(raw) >= 4
       /\ raw[1] = "'"
       /\ raw[Len(raw)] = "0"
       /\ \E n \in 1..Len(raw) : raw[n] = "."
       /\ OnlyDigits(hist[a].out[k].rec["Switch 1"])
       /\ \E m \in 1..Len(json_out) : json_out[m] = hist[a].out[k].rec

====
